---- MODULE Spec2Model ----
(***************************************************************************)
(* Model of chart_script.py: the layered architecture diagram script.      *)
(* The script is a straight-line pipeline over three pieces of data:       *)
(*   layers_data, flow_connections   (the layer and connection lists)      *)
(*   protocol_labels, x_label_pos, y_label_pos  (the label arrays)         *)
(* It appends traces to fig in four loops and then sets the layout.        *)
(* Numbers that Python holds as floats are modelled as exact fractions     *)
(* <<numerator, denominator>> in lowest terms (rounding is not modelled).  *)
(***************************************************************************)
EXTENDS Integers, Sequences, FiniteSets, TLC

VARIABLES layers_data, flow_connections, y_positions, y_pos, fig,
          component_width, layer_names, layout, i, j, conn_iter, pc, error

vars == <<layers_data, flow_connections, y_positions, y_pos, fig,
          component_width, layer_names, layout, i, j, conn_iter, pc, error>>

(* ---------------------------- bounds ---------------------------------- *)
MaxLayers == 2
MaxComponents == 2
MaxConns == 2

(* ------------------------ exact arithmetic ---------------------------- *)
Abs(a) == IF a < 0 THEN -a ELSE a

Max(a, b) == IF a > b THEN a ELSE b

Min(a, b) == IF a < b THEN a ELSE b

RECURSIVE GCD(_, _)
GCD(a, b) == IF b = 0 THEN a ELSE GCD(b, a % b)

Frac(n, d) == LET g == GCD(Abs(n), d) IN <<n \div g, d \div g>>

FromInt(n) == <<n, 1>>

\* the value a float division by zero stands for: Python raises ZeroDivisionError
ZeroDivision == <<0, 0>>

FAdd(a, b) == Frac(a[1] * b[2] + b[1] * a[2], a[2] * b[2])

FSub(a, b) == Frac(a[1] * b[2] - b[1] * a[2], a[2] * b[2])

FMul(a, b) == Frac(a[1] * b[1], a[2] * b[2])

FDiv(a, b) == IF b[1] = 0 THEN ZeroDivision ELSE Frac(a[1] * b[2], a[2] * b[1])

FLess(a, b) == a[1] * b[2] < b[1] * a[2]

FLeq(a, b) == a[1] * b[2] <= b[1] * a[2]

(* --------------------------- list helpers ----------------------------- *)
Range(n) == [p \in 1..n |-> p - 1]

Reverse(s) == [p \in 1..Len(s) |-> s[Len(s) + 1 - p]]

Contains(s, e) == \E p \in 1..Len(s) : s[p] = e

\* list.index: 1-based position of the first occurrence; 0 stands for ValueError
IndexOf(s, e) ==
    IF Contains(s, e)
    THEN CHOOSE p \in 1..Len(s) : s[p] = e /\ \A q \in 1..(p - 1) : s[q] # e
    ELSE 0

SeqsUpTo(S, n) == UNION {[1..m -> S] : m \in 0..n}

(* ------------------------- program constants -------------------------- *)
TotalSpan == 8
BarStart == 1
BackgroundWidth == 10
SourceMarkerSize == 4
DestMarkerSize == 8
FillRatio == Frac(8, 10)
HalfFillRatio == Frac(4, 10)
BackgroundOpacity == Frac(3, 10)
ComponentOpacity == Frac(8, 10)

ShippedLayers == <<
    [name |-> "Client Apps", components |-> <<"Web Browser", "Mobile App", "Desktop App">>, color |-> "#1FB8CD"],
    [name |-> "Load Balancer", components |-> <<"NGINX/AWS ALB">>, color |-> "#DB4545"],
    [name |-> "WebSocket Srvs", components |-> <<"Socket.io Srv1", "Socket.io Srv2", "Socket.io SrvN">>, color |-> "#2E8B57"],
    [name |-> "App Servers", components |-> <<"Node.js+Exp 1", "Node.js+Exp 2", "Node.js+Exp N">>, color |-> "#5D878F"],
    [name |-> "Redis Cache", components |-> <<"Redis Cluster">>, color |-> "#D2BA4C"],
    [name |-> "Database", components |-> <<"MongoDB", "PostgreSQL">>, color |-> "#B4413C"],
    [name |-> "File Storage", components |-> <<"AWS S3">>, color |-> "#964325"] >>

ShippedConnections == <<
    <<"Client Apps", "Load Balancer", "HTTPS/WSS", Frac(95, 10)>>,
    <<"Load Balancer", "WebSocket Srvs", "WSS", Frac(95, 10)>>,
    <<"WebSocket Srvs", "App Servers", "HTTP/RPC", Frac(95, 10)>>,
    <<"App Servers", "Redis Cache", "Redis Proto", Frac(95, 10)>>,
    <<"App Servers", "Database", "TCP/SQL", Frac(75, 10)>>,
    <<"App Servers", "File Storage", "HTTPS", Frac(55, 10)>> >>

protocol_labels == <<"HTTPS/WSS", "WSS", "HTTP/RPC", "Redis Proto", "TCP/SQL", "HTTPS">>

x_label_pos == <<Frac(97, 10), Frac(97, 10), Frac(97, 10), Frac(97, 10), Frac(77, 10), Frac(57, 10)>>

y_label_pos == <<"Load Balancer", "WebSocket Srvs", "App Servers", "Redis Cache", "Database", "File Storage">>

\* zip() stops at the shortest of its arguments
ZipLen == Min(Len(protocol_labels), Min(Len(x_label_pos), Len(y_label_pos)))

(* ------------------------- enumerated inputs -------------------------- *)
LayerNamePool == {"Client Apps", "Load Balancer"}

ComponentPool == <<"Web Browser", "Mobile App", "Desktop App", "NGINX/AWS ALB">>

Components(n) == [p \in 1..n |-> ComponentPool[((p - 1) % Len(ComponentPool)) + 1]]

SmallLayers ==
    {[name |-> nm, components |-> Components(c), color |-> "#1FB8CD"] :
        nm \in LayerNamePool, c \in 0..MaxComponents}

Flows == {<<"HTTPS/WSS", Frac(95, 10)>>, <<"WSS", Frac(97, 10)>>}

SmallConnections ==
    {<<f, "Load Balancer", fl[1], fl[2]>> : f \in {"Client Apps", "Database"}, fl \in Flows}

(* ---------------------------- the traces ------------------------------ *)
BackgroundBar(layer) ==
    [type |-> "bar", mode |-> "", x |-> <<FromInt(BackgroundWidth)>>, y |-> <<layer.name>>,
     base |-> <<>>, text |-> <<>>, color |-> layer.color, opacity |-> BackgroundOpacity,
     symbol |-> <<>>, size |-> <<>>, hovertemplate |-> <<>>]

\* variant: the divisor without the max(., 1) guard
ComponentWidth_NoGuard(num_components) == FDiv(FromInt(TotalSpan), FromInt(num_components))

ComponentWidth(num_components) == FDiv(FromInt(TotalSpan), FromInt(Max(num_components, 1)))

\* variant: the block is not centred in its share
XOffset_NoCentre(jj, cw) == FAdd(FromInt(BarStart), FMul(FromInt(jj), cw))

\* jj is the 0-based index enumerate() yields
XOffset(jj, cw) == FAdd(FAdd(FromInt(BarStart), FMul(FromInt(jj), cw)), FDiv(cw, FromInt(2)))

ComponentBar(layer, jj, cw) ==
    [type |-> "bar", mode |-> "", x |-> <<FMul(cw, FillRatio)>>, y |-> <<layer.name>>,
     base |-> <<FSub(XOffset(jj, cw), FMul(cw, HalfFillRatio))>>,
     text |-> <<layer.components[jj + 1]>>, color |-> layer.color, opacity |-> ComponentOpacity,
     symbol |-> <<>>, size |-> <<>>, hovertemplate |-> <<layer.components[jj + 1], "<extra></extra>">>]

LayerNamesOf(layers) == [p \in 1..Len(layers) |-> layers[p].name]

\* variant: the list is not reversed
YPositions_NoReverse(layers) == Range(Len(layers))

YPositions(layers) == Reverse(Range(Len(layers)))

\* variant: only the source name is tested
Resolvable_SourceOnly(conn, names) == Contains(names, conn[1])

Resolvable(conn, names) == Contains(names, conn[1]) /\ Contains(names, conn[2])

\* variant: the two marker shapes and sizes change ends
ConnectorTrace_Swapped(conn) ==
    [type |-> "scatter", mode |-> "lines+markers", x |-> <<conn[4], conn[4]>>, y |-> <<conn[1], conn[2]>>,
     base |-> <<>>, text |-> <<>>, color |-> "black", opacity |-> <<>>,
     symbol |-> <<"triangle-down", "circle">>, size |-> <<DestMarkerSize, SourceMarkerSize>>,
     hovertemplate |-> <<conn[3], "<extra></extra>">>]

ConnectorTrace(conn) ==
    [type |-> "scatter", mode |-> "lines+markers", x |-> <<conn[4], conn[4]>>, y |-> <<conn[1], conn[2]>>,
     base |-> <<>>, text |-> <<>>, color |-> "black", opacity |-> <<>>,
     symbol |-> <<"circle", "triangle-down">>, size |-> <<SourceMarkerSize, DestMarkerSize>>,
     hovertemplate |-> <<conn[3], "<extra></extra>">>]

LabelTrace(p) ==
    [type |-> "scatter", mode |-> "text", x |-> <<x_label_pos[p]>>, y |-> <<y_label_pos[p]>>,
     base |-> <<>>, text |-> <<protocol_labels[p]>>, color |-> "black", opacity |-> <<>>,
     symbol |-> <<>>, size |-> <<>>, hovertemplate |-> <<>>]

(* ------------------------------ Init ---------------------------------- *)
Init ==
    /\ layers_data \in {ShippedLayers} \cup SeqsUpTo(SmallLayers, MaxLayers)
    /\ flow_connections = <<>>
    /\ y_positions = <<>>
    /\ y_pos = -1
    /\ fig = <<>>
    /\ component_width = FromInt(0)
    /\ layer_names = <<>>
    /\ layout = [categoryorder |-> "trace", categoryarray |-> <<>>]
    /\ i = 0
    /\ j = 0
    /\ conn_iter = 0
    /\ pc = "y_positions"
    /\ error = "none"

(* ----------------------------- actions -------------------------------- *)
\* lines 19-20
BuildYPositions ==
    /\ pc = "y_positions"
    /\ y_positions' = YPositions(layers_data)
    /\ i' = 0
    /\ pc' = "layer"
    /\ UNCHANGED <<layers_data, flow_connections, y_pos, fig, component_width,
                   layer_names, layout, j, conn_iter, error>>

\* lines 23-38: one iteration of the layer loop up to the inner loop
AddLayerBackground ==
    /\ pc = "layer"
    /\ i < Len(layers_data)
    /\ LET layer == layers_data[i + 1]
           cw == ComponentWidth(Len(layer.components))
       IN /\ y_pos' = y_positions[i + 1]
          /\ fig' = Append(fig, BackgroundBar(layer))
          /\ IF cw = ZeroDivision
             THEN /\ error' = "ZeroDivisionError"
                  /\ pc' = "crashed"
                  /\ UNCHANGED component_width
             ELSE /\ component_width' = cw
                  /\ pc' = "component"
                  /\ UNCHANGED error
    /\ j' = 0
    /\ UNCHANGED <<layers_data, flow_connections, y_positions, layer_names, layout,
                   i, conn_iter>>

\* lines 40-54: one iteration of the component loop
AddComponentBar ==
    /\ pc = "component"
    /\ j < Len(layers_data[i + 1].components)
    /\ fig' = Append(fig, ComponentBar(layers_data[i + 1], j, component_width))
    /\ j' = j + 1
    /\ UNCHANGED <<layers_data, flow_connections, y_positions, y_pos, component_width,
                   layer_names, layout, i, conn_iter, pc, error>>

\* line 40: the component loop is exhausted, the layer loop advances
NextLayer ==
    /\ pc = "component"
    /\ j = Len(layers_data[i + 1].components)
    /\ i' = i + 1
    /\ pc' = "layer"
    /\ UNCHANGED <<layers_data, flow_connections, y_positions, y_pos, fig, component_width,
                   layer_names, layout, j, conn_iter, error>>

\* line 23 exhausted, lines 57-66: the connection list and the layer names
BuildLayerNames ==
    /\ pc = "layer"
    /\ i = Len(layers_data)
    /\ flow_connections' \in {ShippedConnections} \cup SeqsUpTo(SmallConnections, MaxConns)
    /\ layer_names' = LayerNamesOf(layers_data)
    /\ conn_iter' = 0
    /\ pc' = "connection"
    /\ UNCHANGED <<layers_data, y_positions, y_pos, fig, component_width,
                   layout, i, j, error>>

\* lines 68-86: one iteration of the connection loop
ResolveConnection ==
    /\ pc = "connection"
    /\ conn_iter < Len(flow_connections)
    /\ LET conn == flow_connections[conn_iter + 1]
       IN IF Resolvable(conn, layer_names)
          THEN LET from_idx == IndexOf(layer_names, conn[1])
                   to_idx == IndexOf(layer_names, conn[2])
               IN IF from_idx = 0 \/ to_idx = 0
                  THEN /\ error' = "ValueError"
                       /\ pc' = "crashed"
                       /\ UNCHANGED <<fig, conn_iter>>
                  ELSE /\ fig' = Append(fig, ConnectorTrace(conn))
                       /\ conn_iter' = conn_iter + 1
                       /\ UNCHANGED <<pc, error>>
          ELSE /\ conn_iter' = conn_iter + 1
               /\ UNCHANGED <<fig, pc, error>>
    /\ UNCHANGED <<layers_data, flow_connections, y_positions, y_pos, component_width,
                   layer_names, layout, i, j>>

\* line 68 exhausted, lines 89-93
StartLabels ==
    /\ pc = "connection"
    /\ conn_iter = Len(flow_connections)
    /\ i' = 0
    /\ pc' = "label"
    /\ UNCHANGED <<layers_data, flow_connections, y_positions, y_pos, fig, component_width,
                   layer_names, layout, j, conn_iter, error>>

\* lines 93-102: one iteration of the label loop (it reuses i and y_pos)
AddLabel ==
    /\ pc = "label"
    /\ i < ZipLen
    /\ fig' = Append(fig, LabelTrace(i + 1))
    /\ y_pos' = y_label_pos[i + 1]
    /\ i' = i + 1
    /\ UNCHANGED <<layers_data, flow_connections, y_positions, component_width,
                   layer_names, layout, j, conn_iter, pc, error>>

\* lines 105-123
UpdateLayout ==
    /\ pc = "label"
    /\ i = ZipLen
    /\ layout' = [categoryorder |-> "array", categoryarray |-> layer_names]
    /\ pc' = "write"
    /\ UNCHANGED <<layers_data, flow_connections, y_positions, y_pos, fig, component_width,
                   layer_names, i, j, conn_iter, error>>

\* line 126
WriteImage ==
    /\ pc = "write"
    /\ pc' = "done"
    /\ UNCHANGED <<layers_data, flow_connections, y_positions, y_pos, fig, component_width,
                   layer_names, layout, i, j, conn_iter, error>>

Next ==
    \/ BuildYPositions
    \/ AddLayerBackground
    \/ AddComponentBar
    \/ NextLayer
    \/ BuildLayerNames
    \/ ResolveConnection
    \/ StartLabels
    \/ AddLabel
    \/ UpdateLayout
    \/ WriteImage

Spec == Init /\ [][Next]_vars

(* ------------------- vocabulary of the properties --------------------- *)
IsBackground(t) == t.type = "bar" /\ t.base = <<>>

IsComponent(t) == t.type = "bar" /\ t.base # <<>>

IsConnector(t) == t.type = "scatter" /\ t.mode = "lines+markers"

IsLabel(t) == t.type = "scatter" /\ t.mode = "text"

Bars == SelectSeq(fig, LAMBDA t : t.type = "bar")

Connectors == SelectSeq(fig, IsConnector)

Labels == SelectSeq(fig, IsLabel)

NumLayers == Len(layers_data)

DeclaredNames == {layers_data[p].name : p \in 1..NumLayers}

UniqueNames == \A p, q \in 1..NumLayers : p # q => layers_data[p].name # layers_data[q].name

BothDeclared(conn) == conn[1] \in DeclaredNames /\ conn[2] \in DeclaredNames

LayersLaidOut == pc \in {"connection", "label", "write", "done"}

\* the connections the connection loop has gone through so far
Processed == SubSeq(flow_connections, 1, conn_iter)

ResolvedSoFar == SelectSeq(Processed, BothDeclared)

RECURSIVE ComponentsBefore(_)
ComponentsBefore(p) ==
    IF p <= 1 THEN 0 ELSE ComponentsBefore(p - 1) + Len(layers_data[p - 1].components)

\* position in fig of the background bar of the layer declared at position p
BackgroundPos(p) == p + ComponentsBefore(p)

(* ------------------------------ C1 ------------------------------------ *)
\* C1: for a non-empty layer list with unique names, the layer declared at
\* index i gets display index n - 1 - i; names to display indices is a
\* bijection onto 0..n-1, the first layer gets n-1 and the last gets 0.
C1_SlotBijection ==
    (pc # "y_positions" /\ NumLayers >= 1 /\ UniqueNames) =>
        LET n == NumLayers
            slot == [nm \in DeclaredNames |->
                        y_positions[IndexOf(LayerNamesOf(layers_data), nm)]]
        IN /\ Len(y_positions) = n
           /\ \A p \in 1..n : y_positions[p] = n - 1 - (p - 1)
           /\ {slot[nm] : nm \in DeclaredNames} = 0..(n - 1)
           /\ \A a, b \in DeclaredNames : slot[a] = slot[b] => a = b
           /\ slot[layers_data[1].name] = n - 1
           /\ slot[layers_data[n].name] = 0

C1_Witness == pc = "layer" /\ NumLayers >= 2 /\ UniqueNames /\ Len(y_positions) = NumLayers

(* ------------------------------ C2 ------------------------------------ *)
\* C2: a connection with an undeclared source or destination emits no
\* connector and raises no error; the other connections are still processed
\* in order (the connectors are exactly those of the resolvable connections
\* gone through so far, in their order).
C2_UnknownSkipped ==
    /\ error = "none"
    /\ pc # "crashed"
    /\ (pc \in {"connection", "label", "write", "done"}) =>
          /\ Len(Connectors) = Len(ResolvedSoFar)
          /\ \A m \in 1..Len(Connectors) :
                Connectors[m].hovertemplate[1] = ResolvedSoFar[m][3]

C2_Witness ==
    /\ pc = "done"
    /\ \E p, q \in 1..Len(flow_connections) :
          /\ p < q
          /\ ~BothDeclared(flow_connections[p])
          /\ BothDeclared(flow_connections[q])
    /\ Len(Connectors) >= 1
    /\ Len(Connectors) < Len(flow_connections)

(* ------------------------------ C3 ------------------------------------ *)
\* C3: a connection whose source and destination are both declared emits
\* exactly one connector: two points at the connection's own x, the first on
\* the source layer's row, the second on the destination layer's row, a
\* circle of size 4 at the source end, a triangle-down of size 8 at the other.
C3_OneConnectorPerResolved ==
    [][(pc = "connection" /\ conn_iter < Len(flow_connections)
            /\ BothDeclared(flow_connections[conn_iter + 1])) =>
        LET conn == flow_connections[conn_iter + 1]
            rec == fig'[Len(fig')]
        IN /\ Len(fig') = Len(fig) + 1
           /\ SubSeq(fig', 1, Len(fig)) = fig
           /\ IsConnector(rec)
           /\ rec.x = <<conn[4], conn[4]>>
           /\ rec.y = <<conn[1], conn[2]>>
           /\ \E p \in 1..Len(fig) : IsBackground(fig[p]) /\ fig[p].y = <<rec.y[1]>>
           /\ \E p \in 1..Len(fig) : IsBackground(fig[p]) /\ fig[p].y = <<rec.y[2]>>
           /\ rec.symbol = <<"circle", "triangle-down">>
           /\ rec.size = <<4, 8>>
           /\ conn_iter' = conn_iter + 1]_vars

C3_Witness ==
    /\ pc = "label"
    /\ Len(flow_connections) >= 1
    /\ \E p \in 1..Len(flow_connections) :
          /\ BothDeclared(flow_connections[p])
          /\ flow_connections[p][1] # flow_connections[p][2]
    /\ Len(Connectors) >= 1

(* ------------------------------ C4 ------------------------------------ *)
\* C4: in a layer with n >= 1 components, component j (0-based) starts at
\* 1 + j*(8/n) + 0.1*(8/n) and is 0.8*(8/n) wide; blocks go left to right in
\* declaration order, each ends strictly before the next starts, and widths
\* plus padding stay within the span of 8 units.
C4_BlockGeometry ==
    pc = "component" =>
        LET n == Len(layers_data[i + 1].components)
            blk(m) == fig[Len(fig) - j + m]
            start(m) == blk(m).base[1]
            width(m) == blk(m).x[1]
        IN \A m \in 1..j :
              /\ IsComponent(blk(m))
              /\ blk(m).text = <<layers_data[i + 1].components[m]>>
              /\ start(m) = Frac(10 * n + 80 * (m - 1) + 8, 10 * n)
              /\ width(m) = Frac(64, 10 * n)
              /\ m < j => FLess(FAdd(start(m), width(m)), start(m + 1))
              /\ FLeq(FromInt(1), start(m))
              /\ FLeq(FAdd(start(m), width(m)), FromInt(9))
              /\ FLeq(FMul(FromInt(n),
                           FAdd(width(m), FMul(FromInt(2), FSub(start(1), FromInt(1))))),
                      FromInt(8))

C4_Witness ==
    /\ pc = "component"
    /\ j >= 2
    /\ j = Len(layers_data[i + 1].components)
    /\ IsComponent(fig[Len(fig)])

(* ------------------------------ C6 ------------------------------------ *)
\* C6: a layer with zero components gives exactly one background bar and no
\* component bar, without error (the divisor is max(n, 1) = 1), and the
\* layers declared after it are still laid out.
C6_EmptyLayer ==
    /\ (\E p \in 1..NumLayers : layers_data[p].components = <<>>) =>
          (error = "none" /\ pc # "crashed")
    /\ LayersLaidOut =>
          /\ Len(Bars) = NumLayers + ComponentsBefore(NumLayers + 1)
          /\ \A p \in 1..NumLayers :
                layers_data[p].components = <<>> =>
                   /\ IsBackground(fig[BackgroundPos(p)])
                   /\ fig[BackgroundPos(p)].y = <<layers_data[p].name>>
                   /\ p < NumLayers =>
                         /\ IsBackground(fig[BackgroundPos(p) + 1])
                         /\ fig[BackgroundPos(p) + 1].y = <<layers_data[p + 1].name>>
                         /\ \A m \in 1..Len(layers_data[p + 1].components) :
                               IsComponent(fig[BackgroundPos(p + 1) + m])
                   /\ p = NumLayers => Len(Bars) = BackgroundPos(p)

C6_Witness ==
    /\ pc = "done"
    /\ error = "none"
    /\ \E p \in 1..NumLayers :
          /\ p < NumLayers
          /\ layers_data[p].components = <<>>
          /\ layers_data[p + 1].components # <<>>

(* ------------------------------ C5 ------------------------------------ *)
\* C5: when two declared layers share a name the layout pass fails fast with
\* a DuplicateLayerError: no slot mapping and no draw primitive is produced
\* and the run does not complete.
C5_DuplicateFailsFast ==
    ~UniqueNames =>
        /\ y_positions = <<>>
        /\ fig = <<>>
        /\ pc # "done"
        /\ (pc # "y_positions" => error = "DuplicateLayerError")

(* ------------------------------ C7 ------------------------------------ *)
\* C7: with an empty layer list no error is raised and there is nothing to
\* draw: the slot mapping is empty and fig holds no primitive at all (no
\* bars, no connectors, no text labels), whatever the connections are.
C7_EmptyLayersDrawNothing ==
    layers_data = <<>> =>
        /\ error = "none"
        /\ y_positions = <<>>
        /\ fig = <<>>

(* ------------------------------ C8 ------------------------------------ *)
\* C8: for the k-th connection, the k-th label carries that connection's
\* protocol text and sits at an x strictly greater than the connector's x.
C8_LabelRightOfConnector ==
    pc = "done" =>
        \A k \in 1..Len(flow_connections) :
            /\ k <= Len(Labels)
            /\ Labels[k].text = <<flow_connections[k][3]>>
            /\ FLess(flow_connections[k][4], Labels[k].x[1])

(* ------------------------------ C9 ------------------------------------ *)
\* C9: the row a layer is drawn at agrees with its display index: in the row
\* order handed to the renderer (categoryarray, first entry = lowest row) the
\* first declared layer is on the top row and the last on the bottom row,
\* for every layer list with at least two layers.
C9_FirstLayerOnTop ==
    (pc = "done" /\ NumLayers >= 2) =>
        LET rows == layout.categoryarray
        IN /\ Len(rows) = NumLayers
           /\ rows[Len(rows)] = layers_data[1].name
           /\ rows[1] = layers_data[NumLayers].name
           /\ \A p \in 1..NumLayers :
                 rows[y_positions[p] + 1] = layers_data[p].name

(* ------------------------------ C10 ----------------------------------- *)
\* C10: after the pipeline finishes there are as many text labels as emitted
\* connectors, every label sits on the destination row of an emitted
\* connector with the same protocol text, and a skipped connection has no
\* label.
C10_LabelsMatchConnectors ==
    pc = "done" =>
        /\ Len(Labels) = Len(Connectors)
        /\ \A m \in 1..Len(Labels) :
              \E c \in 1..Len(Connectors) :
                 /\ Labels[m].y = <<Connectors[c].y[2]>>
                 /\ Labels[m].text = <<Connectors[c].hovertemplate[1]>>

====
